---- MODULE Spec2Model ----
(***************************************************************************)
(* Job-finder aggregation pipeline: the persisted corpus file              *)
(* (jobs_data.json), the two writers of it (save_job_details of the        *)
(* listing-API scraper and run_scrapers/save_jobs of the browser           *)
(* scrapers), and the search path that reads it (search_jobs,              *)
(* load_scraped_data, filter_jobs_with_llm).                               *)
(*                                                                         *)
(* Five specifications share the variables:                                *)
(*   Spec        the store operations, one whole call per step;            *)
(*   SpecConc    two save_job_details writers and a reader, one file       *)
(*               access per step (load, open-for-write, dump);             *)
(*   SpecMap     one save_job_details call on a job with a description;    *)
(*   SpecSearch  the /search endpoint over corpora of up to MaxCorpus jobs;*)
(*   SpecRun     one run of either pipeline (run_scrapers behind /scrape or *)
(*               from its script, or the listing-API script), one network  *)
(*               operation per step; SpecRunFair is SpecRun with the       *)
(*               progress of a started run stated.                         *)
(***************************************************************************)
EXTENDS Integers, Sequences, FiniteSets, TLC

VARIABLES
    file,              \* jobs_data.json: [kind, jobs]
    op,                \* name of the last completed operation
    input,             \* argument(s) of the last completed operation
    repeated,          \* the last operation was a run with the same input as the one before it
    outcome,           \* how the last save_job_details call ended
    wrote,             \* the last operation opened the corpus file for writing
    pc,                \* SpecConc: per-writer position inside save_job_details
    job_detail_data,   \* SpecConc: per-writer argument of the running call
    all_jobs_data,     \* SpecConc: per-writer local list loaded from the file
    acked,             \* SpecConc: jobs whose append completed (the dump returned)
    seen,              \* SpecConc: what the last concurrent read of the file observed
    model,             \* llm_processor.model is configured (not None)
    criteria,          \* SpecSearch: criteria_dict of the last search is non-empty
    response,          \* SpecSearch: result of the last search
    filter_ret,        \* SpecSearch: what filter_jobs_with_llm returned, and whether it was called
    llm_called,        \* SpecSearch: model.generate_content was invoked by the last search
    llm_reply,         \* SpecSearch: what generate_content answered in the last search
    search_all_jobs,   \* SpecSearch: all_jobs of search_jobs, as it is when the call ends
    scrape_run,        \* SpecRun: the locals of a run_scrapers call and of the /scrape request around it
    api_main           \* SpecRun: the locals of the listing-API script (indeed_api_scraper.py __main__)

vars == <<file, op, input, repeated, outcome, wrote, pc, job_detail_data,
          all_jobs_data, acked, seen, model, criteria, response, filter_ret, llm_called,
          llm_reply, search_all_jobs, scrape_run, api_main>>

storeVars == <<op, input, repeated, outcome, wrote>>
concVars == <<pc, job_detail_data, all_jobs_data, acked, seen>>
searchVars == <<model, criteria, response, filter_ret, llm_called, llm_reply, search_all_jobs>>
runVars == <<scrape_run, api_main>>

(***************************************************************************)
(* Bounds of the model.                                                    *)
(***************************************************************************)
\* longest detail list one listing-API pipeline run processes
MaxRun == 2
\* most job cards the browser scrapers return in one run, both sites together
MaxCards == 2
\* largest corpus the search specification starts from
MaxCorpus == 52
\* longest list of records one reply of the scoring model holds
MaxReply == 2
\* most pages one browser scraper is asked for (indeed_pages, linkedin_pages)
MaxPages == 2
\* most entries one page of the listing API holds
MaxPerPage == 2
\* most lines a job description has
MaxDescLines == 2
\* the target number of job identifiers of the listing-API script (100 in
\* the source, indeed_api_scraper.py line 180)
MAX_JOBS_TO_SCRAPE == 2

(***************************************************************************)
(* Values.  An apply_link is an integer: k >= 1 stands for the URL         *)
(* "http://x/k"; the three values below are the non-URL links the code     *)
(* can produce.                                                            *)
(***************************************************************************)
\* Python None: get_attribute('href') of an anchor without href
NoneLink == 0
\* the string "Check link", LinkedIn's default when the card has no link element
CheckLink == -1
\* the string 'Apply URL Not Provided by API'
ApiNoUrl == -2

Urls == {1, 2}

\* a key that is absent from the API's response dictionary
NoKey == "<no key>"

Range(s) == {s[i] : i \in DOMAIN s}

SeqsUpTo(S, n) == UNION {[1..k -> S] : k \in 0..n}

Min(a, b) == IF a <= b THEN a ELSE b

(***************************************************************************)
(* The corpus file.  kind is what a reader finds:                          *)
(*   "absent"     os.path.exists is false                                  *)
(*   "valid"      a JSON object {"jobs": [...]} holding jobs               *)
(*   "badjson"    text that json.load rejects with JSONDecodeError         *)
(*   "badutf8"    bytes that are not UTF-8: reading raises                 *)
(*                UnicodeDecodeError                                       *)
(*   "truncated"  opened with mode 'w' and not (yet) dumped: zero bytes,   *)
(*                which json.load rejects with JSONDecodeError             *)
(***************************************************************************)
AbsentFile == [kind |-> "absent", jobs |-> <<>>]
ValidFile(jobs) == [kind |-> "valid", jobs |-> jobs]
BadJsonFile == [kind |-> "badjson", jobs |-> <<>>]
BadUtf8File == [kind |-> "badutf8", jobs |-> <<>>]
TruncatedFile == [kind |-> "truncated", jobs |-> <<>>]

Unparseable == {"badjson", "badutf8", "truncated"}

\* the corpus a reader of a well-formed file gets; empty for every other file
Corpus(f) == IF f.kind = "valid" THEN f.jobs ELSE <<>>

Key(job) == <<job.apply_link, job.source>>

Keys(jobs) == {Key(jobs[i]) : i \in DOMAIN jobs}

(***************************************************************************)
(* save_job_details (indeed_api_scraper.py)                                *)
(***************************************************************************)
\* A description is a list of lines (the string split at "\n") and a line
\* is a list of pieces of text: the label, the same words in lower case,
\* a blank, or a word.  No word contains the label or a blank.
WorkLocationLabel == "Work Location:"

Blank == " "

\* job_data has no 'description' entry
NoDescription == [present |-> FALSE, lines |-> <<>>]

Description(lines) == [present |-> TRUE, lines |-> lines]

\* the lines descriptions are made of
DescriptionLines ==
    {<<>>,
     <<"Berlin">>,
     <<WorkLocationLabel, Blank, "Berlin">>,
     <<WorkLocationLabel, "Remote", Blank>>,
     <<WorkLocationLabel>>,
     <<WorkLocationLabel, Blank>>,
     <<Blank, WorkLocationLabel, Blank, "Berlin">>,
     <<"work location:", Blank, "Berlin">>,
     <<WorkLocationLabel, Blank, "Berlin", Blank, WorkLocationLabel, "Remote">>}

\* a string has at least one line; the descriptions of 1..MaxDescLines lines
Descriptions ==
    {Description(lines) : lines \in SeqsUpTo(DescriptionLines, MaxDescLines) \ {<<>>}}

\* responses of the details API as save_job_details looks at them
Detail(shape, title, meta, url) ==
    [shape |-> shape, title |-> title, request_meta |-> meta, url |-> url,
     description |-> NoDescription]

\* a response whose 'job' has a description
DescribedDetail(url, description) ==
    [Detail("job", "T1", TRUE, url) EXCEPT !.description = description]

DescribedDetails == {DescribedDetail(u, d) : u \in Urls, d \in Descriptions}

\* None, or anything that is not a dict
NoneDetail == Detail("none", NoKey, FALSE, 1)
\* a dict without a 'job' entry
NoJobDetail == Detail("nojob", NoKey, FALSE, 1)

JobDetails ==
    {Detail("job", "T1", TRUE, u) : u \in Urls}
        \cup {Detail("job", NoKey, TRUE, 1), Detail("job", "T1", FALSE, 1)}

SaveDetails == {NoneDetail, NoJobDetail} \cup JobDetails

\* what get_indeed_job_details_from_api returns during a pipeline run
RunDetails == {NoneDetail} \cup {Detail("job", "T1", TRUE, u) : u \in Urls}

\* lines 73-81: the list loaded before the append
LoadRaises(f) == f.kind = "badutf8"

LoadForSave(f) == IF f.kind = "valid" THEN f.jobs ELSE <<>>

\* lines 89-97: the early returns
HasJobData(d) == d.shape = "job"

\* str.startswith
StartsWith(line, prefix) == line # <<>> /\ Head(line) = prefix

\* str.replace(old, ""): every occurrence of old is removed
RECURSIVE Remove(_, _)
Remove(line, old) ==
    IF line = <<>>
    THEN <<>>
    ELSE IF Head(line) = old
    THEN Remove(Tail(line), old)
    ELSE <<Head(line)>> \o Remove(Tail(line), old)

\* str.strip(): leading and trailing blanks are removed
RECURSIVE Strip(_)
Strip(line) ==
    IF line = <<>>
    THEN <<>>
    ELSE IF Head(line) = Blank
    THEN Strip(Tail(line))
    ELSE IF line[Len(line)] = Blank
    THEN Strip(SubSeq(line, 1, Len(line) - 1))
    ELSE line

\* the string a list of pieces spells
RECURSIVE Text(_)
Text(line) == IF line = <<>> THEN "" ELSE Head(line) \o Text(Tail(line))

\* line 101: the description is present and is not the empty string
HasDescription(description) == description.present /\ description.lines # <<<<>>>>

\* line 105
LocationOfLine(line) == Text(Strip(Remove(line, WorkLocationLabel)))

\* lines 100-106
JobLocation(description) ==
    LET labelled == {n \in DOMAIN description.lines :
                        StartsWith(description.lines[n], WorkLocationLabel)}
    IN  IF HasDescription(description) /\ labelled # {}
        THEN LocationOfLine(description.lines[CHOOSE n \in labelled :
                                                  \A m \in labelled : n <= m])
        ELSE "Location Not Provided by API"

\* lines 108-118
MapJob(d) ==
    [job_title  |-> IF d.title = NoKey THEN "Title Not Provided" ELSE d.title,
     company    |-> "Company Not Provided by API",
     location   |-> JobLocation(d.description),
     apply_link |-> IF d.request_meta THEN d.url ELSE ApiNoUrl,
     source     |-> "indeed_hasdata_api"]

IsNewKey_Always(mapped_job, jobs) == TRUE

\* lines 120-121
IsNewKey(mapped_job, jobs) == Key(mapped_job) \notin Keys(jobs)

ShouldWrite_Always(newly_added_count) == TRUE

\* line 132
ShouldWrite(newly_added_count) == newly_added_count > 0

\* the whole call, its write completing: the file it leaves and how it ended
SaveResult(f, d) ==
    IF LoadRaises(f)
    THEN [file |-> f, outcome |-> "Raised", wrote |-> FALSE]
    ELSE IF ~HasJobData(d)
    THEN [file |-> f, outcome |-> "NoData", wrote |-> FALSE]
    ELSE LET jobs == LoadForSave(f)
             mapped_job == MapJob(d)
             new == IsNewKey(mapped_job, jobs)
             newly_added_count == IF new THEN 1 ELSE 0
             all == IF new THEN Append(jobs, mapped_job) ELSE jobs
         IN  [file    |-> IF ShouldWrite(newly_added_count) THEN ValidFile(all) ELSE f,
              outcome |-> IF new THEN "Added" ELSE "Duplicate",
              wrote   |-> ShouldWrite(newly_added_count)]

SaveJobDetails(d) ==
    LET r == SaveResult(file, d)
    IN  /\ file' = r.file
        /\ outcome' = r.outcome
        /\ wrote' = r.wrote
        /\ op' = "save_job_details"
        /\ input' = d
        /\ repeated' = FALSE
        /\ UNCHANGED <<concVars, searchVars, runVars>>

(***************************************************************************)
(* Phase 2 of the listing-API pipeline (indeed_api_scraper.py, __main__):  *)
(* one save_job_details call per detail that was retrieved.                *)
(***************************************************************************)
RECURSIVE ApiRunResult(_, _, _)
ApiRunResult(r, details, i) ==
    IF i > Len(details) \/ r.outcome = "Raised"
    THEN r
    ELSE IF details[i].shape = "none"
    THEN ApiRunResult(r, details, i + 1)
    ELSE LET s == SaveResult(r.file, details[i])
         IN  ApiRunResult([s EXCEPT !.wrote = r.wrote \/ s.wrote], details, i + 1)

ApiRun(details) ==
    LET r == ApiRunResult([file |-> file, outcome |-> "None", wrote |-> FALSE], details, 1)
    IN  /\ file' = r.file
        /\ outcome' = r.outcome
        /\ wrote' = r.wrote
        /\ repeated' = (op = "api_run" /\ input = details)
        /\ op' = "api_run"
        /\ input' = details
        /\ UNCHANGED <<concVars, searchVars, runVars>>

(***************************************************************************)
(* run_scrapers / save_jobs (scraper.py)                                   *)
(***************************************************************************)
ScrapedJob(link, source) ==
    [job_title |-> "T1", company |-> "C1", location |-> "L1",
     apply_link |-> link, source |-> source]

\* what scrape_indeed can append for one card (lines 110-135)
IndeedJobs == {ScrapedJob(l, "indeed") : l \in {1, NoneLink}}

\* what scrape_linkedin can append for one card (lines 193-321)
LinkedinJobs == {ScrapedJob(l, "linkedin") : l \in {CheckLink}}

\* lines 13-17, the write completing
SaveJobs(jobs) == ValidFile(jobs)

\* lines 342-368
RunScrapersResult(f, indeed_jobs, linkedin_jobs) ==
    LET all_jobs == indeed_jobs \o linkedin_jobs
    IN  IF all_jobs # <<>> THEN SaveJobs(all_jobs) ELSE f

RunScrapers(indeed_jobs, linkedin_jobs) ==
    /\ file' = RunScrapersResult(file, indeed_jobs, linkedin_jobs)
    /\ wrote' = (indeed_jobs \o linkedin_jobs # <<>>)
    /\ outcome' = "None"
    /\ repeated' = (op = "run_scrapers" /\ input = <<indeed_jobs, linkedin_jobs>>)
    /\ op' = "run_scrapers"
    /\ input' = <<indeed_jobs, linkedin_jobs>>
    /\ UNCHANGED <<concVars, searchVars, runVars>>

(***************************************************************************)
(* Spec: the store, one call per step.                                     *)
(***************************************************************************)
ConcIdle ==
    /\ pc = [w \in {1, 2} |-> "idle"]
    /\ job_detail_data = [w \in {1, 2} |-> NoneDetail]
    /\ all_jobs_data = [w \in {1, 2} |-> <<>>]
    /\ acked = {}
    /\ seen = "nothing"

\* generate_content was not asked
NoReply == [kind |-> "none", fence |-> FALSE, picks |-> <<>>]

SearchIdle ==
    /\ criteria = FALSE
    /\ response = [status |-> "none", relevant_jobs |-> <<>>, total_found |-> 0]
    /\ filter_ret = [called |-> FALSE, jobs |-> <<>>, raised |-> FALSE]
    /\ llm_called = FALSE
    /\ llm_reply = NoReply
    /\ search_all_jobs = <<>>

\* run_scrapers and the /scrape request have not started
ScrapeIdle ==
    [phase     |-> "idle",
     endpoint  |-> FALSE,
     max_pages |-> [indeed |-> 0, linkedin |-> 0],
     page      |-> 0,
     jobs      |-> [indeed |-> <<>>, linkedin |-> <<>>],
     loads     |-> [indeed |-> <<>>, linkedin |-> <<>>],
     events    |-> [indeed |-> <<>>, linkedin |-> <<>>],
     cards     |-> <<>>,
     items     |-> <<>>,
     clicked   |-> <<>>,
     blocked   |-> FALSE,
     before    |-> <<>>,
     returned  |-> "none",
     response  |-> [status |-> "none", new_jobs_found |-> 0]]

\* the listing-API script has not started
ApiIdle ==
    [phase                     |-> "idle",
     page_num                  |-> 0,
     current_offset            |-> 0,
     collected_job_identifiers |-> <<>>,
     requests                  |-> <<>>,
     events                    |-> <<>>,
     before                    |-> <<>>,
     appended                  |-> <<>>,
     i                         |-> 0,
     fetched                   |-> <<>>,
     details                   |-> <<>>,
     total_jobs_processed      |-> 0]

RunIdle ==
    /\ scrape_run = ScrapeIdle
    /\ api_main = ApiIdle

StoreIdle ==
    /\ op = "none"
    /\ input = <<>>
    /\ repeated = FALSE
    /\ outcome = "None"
    /\ wrote = FALSE

\* the corpus does not exist before the first run
Init ==
    /\ file = AbsentFile
    /\ StoreIdle
    /\ ConcIdle
    /\ SearchIdle
    /\ model = TRUE
    /\ RunIdle

DoSaveJobDetails == \E d \in SaveDetails : SaveJobDetails(d)

DoApiRun == \E details \in SeqsUpTo(RunDetails, MaxRun) : ApiRun(details)

DoRunScrapers ==
    \E indeed_jobs \in SeqsUpTo(IndeedJobs, MaxCards) :
        \E linkedin_jobs \in SeqsUpTo(LinkedinJobs, MaxCards - Len(indeed_jobs)) :
            RunScrapers(indeed_jobs, linkedin_jobs)

Next ==
    \/ DoSaveJobDetails
    \/ DoApiRun
    \/ DoRunScrapers

Spec == Init /\ [][Next]_vars

(***************************************************************************)
(* SpecMap: one save_job_details call on an answer of the details API      *)
(* whose job has a description, on an absent corpus or on one that holds    *)
(* a job already.                                                          *)
(***************************************************************************)
MapFiles == {AbsentFile, ValidFile(<<MapJob(Detail("job", "T1", TRUE, 1))>>)}

InitMap ==
    /\ file \in MapFiles
    /\ StoreIdle
    /\ ConcIdle
    /\ SearchIdle
    /\ RunIdle
    /\ model = TRUE

DoSaveDescribed == \E d \in DescribedDetails : op = "none" /\ SaveJobDetails(d)

NextMap == DoSaveDescribed

SpecMap == InitMap /\ [][NextMap]_vars

(***************************************************************************)
(* SpecConc: save_job_details one file access at a time.  Two processes    *)
(* call it (two runs of the listing-API pipeline), and the search          *)
(* endpoint reads the file while they do.  No lock is taken anywhere in    *)
(* the sources, so every step of one call may follow any step of another.  *)
(***************************************************************************)
Writers == {1, 2}

ConcDetails == RunDetails \cup {NoJobDetail}

\* lines 73-129: read the file, map the job, decide whether to write
Load(w, d) ==
    /\ pc[w] = "idle"
    /\ job_detail_data' = [job_detail_data EXCEPT ![w] = d]
    /\ IF LoadRaises(file)
       THEN /\ pc' = [pc EXCEPT ![w] = "raised"]
            /\ UNCHANGED all_jobs_data
       ELSE IF ~HasJobData(d)
       THEN UNCHANGED <<pc, all_jobs_data>>
       ELSE LET jobs == LoadForSave(file)
                mapped_job == MapJob(d)
                new == IsNewKey(mapped_job, jobs)
            IN  /\ all_jobs_data' =
                      [all_jobs_data EXCEPT
                          ![w] = IF new THEN Append(jobs, mapped_job) ELSE jobs]
                /\ pc' = [pc EXCEPT
                          ![w] = IF ShouldWrite(IF new THEN 1 ELSE 0)
                                 THEN "open" ELSE "idle"]
    /\ UNCHANGED <<file, acked, seen, storeVars, searchVars, runVars>>

\* line 133: open(JOBS_DATA_FILE, 'w') empties the file
OpenForWrite(f) == TruncatedFile

Open(w) ==
    /\ pc[w] = "open"
    /\ file' = OpenForWrite(file)
    /\ pc' = [pc EXCEPT ![w] = "dump"]
    /\ UNCHANGED <<job_detail_data, all_jobs_data, acked, seen, storeVars, searchVars, runVars>>

\* line 134: json.dump writes the text from offset 0 of this writer's handle.
\* When another writer has dumped since this one emptied the file, the bytes
\* beyond this writer's text stay: a longer list replaces the other text, a
\* shorter one leaves a tail behind it, and for two different lists of equal
\* length it depends on the field values.
DumpResults(f, jobs) ==
    IF f.kind # "valid" \/ f.jobs = jobs \/ Len(jobs) > Len(f.jobs)
    THEN {ValidFile(jobs)}
    ELSE IF Len(jobs) = Len(f.jobs)
    THEN {ValidFile(jobs), BadJsonFile}
    ELSE {BadJsonFile}

Dump(w) ==
    /\ pc[w] = "dump"
    /\ file' \in DumpResults(file, all_jobs_data[w])
    /\ acked' = acked \cup {MapJob(job_detail_data[w])}
    /\ pc' = [pc EXCEPT ![w] = "idle"]
    /\ UNCHANGED <<job_detail_data, all_jobs_data, seen, storeVars, searchVars, runVars>>

\* lines 133-134: the dump raises (an I/O error) or the process is stopped
\* after the file was opened; the process ends
FailWrite(w) ==
    /\ pc[w] = "dump"
    /\ pc' = [pc EXCEPT ![w] = "failed"]
    /\ UNCHANGED <<file, job_detail_data, all_jobs_data, acked, seen, storeVars, searchVars, runVars>>

\* scraper.py lines 19-33, called by the search endpoint
LoadScrapedData(f) == IF f.kind = "valid" THEN f.jobs ELSE <<>>

Read ==
    /\ seen' = file.kind
    /\ UNCHANGED <<file, pc, job_detail_data, all_jobs_data, acked, storeVars, searchVars, runVars>>

InitConc ==
    /\ file \in {AbsentFile, BadJsonFile, BadUtf8File}
    /\ StoreIdle
    /\ ConcIdle
    /\ SearchIdle
    /\ model = TRUE
    /\ RunIdle

DoLoad == \E w \in Writers : \E d \in ConcDetails : Load(w, d)

DoOpen == \E w \in Writers : Open(w)

DoDump == \E w \in Writers : Dump(w)

DoFailWrite == \E w \in Writers : FailWrite(w)

NextConc ==
    \/ DoLoad
    \/ DoOpen
    \/ DoDump
    \/ DoFailWrite
    \/ Read

SpecConc == InitConc /\ [][NextConc]_vars

(***************************************************************************)
(* Claims about the file accesses, checked under SpecConc.                 *)
(***************************************************************************)

\* C5: the corpus file is never in a partial-write state and no reader ever
\* observes one: a write either replaces the file completely or leaves it
\* as it was.
AtomicWrites == file.kind # "truncated" /\ seen # "truncated"

\* C6: under every interleaving of two writers' load / check / rewrite
\* sequences, every job whose append completed is in the persisted corpus
\* (stated for the behaviours in which no write has failed).
AppendsSurviveInterleaving ==
    ((\A w \in Writers : pc[w] # "failed") /\ file.kind = "valid")
        => \A job \in acked : job \in Range(file.jobs)

\* C7: while the existing file cannot be parsed, no call raises because of
\* it, and the file changes only by a write that completes.
CorruptionRecovery ==
    [][file.kind \in Unparseable
          => /\ \A w \in Writers : pc'[w] # "raised"
             /\ file' # file => file'.kind = "valid"]_vars

(***************************************************************************)
(* SpecSearch: the /search endpoint (main.py search_jobs) and the filter   *)
(* bridge (llm_processor.py filter_jobs_with_llm) over a corpus that does  *)
(* not change.                                                             *)
(***************************************************************************)
\* main.py line 115: all_jobs[:50]
PrefixLimit == 50

\* the i-th job of a generated corpus; job number bad (if any) carries the
\* None link that scrape_indeed stores for an anchor without href
CorpusJob(i, bad) ==
    [job_title |-> "T1", company |-> "C1", location |-> "L1",
     apply_link |-> IF i = bad THEN NoneLink ELSE i, source |-> "indeed"]

GeneratedCorpus(n, bad) == [i \in 1..n |-> CorpusJob(i, bad)]

\* the corpus sizes a search starts from: the smallest ones, and the ones
\* around the prefix limit up to MaxCorpus
CorpusSizes == (0..2) \cup ((PrefixLimit - 1)..MaxCorpus)

\* where the largest corpus may hold the None link: at its head, as the last
\* job within the prefix limit, and right behind the limit
BadPositions == {1, PrefixLimit, PrefixLimit + 1}

\* the files a search may find: none, an unreadable one, a corpus of
\* well-formed jobs of each size, and the largest corpus with the None link
\* at one position
SearchFiles ==
    {AbsentFile, BadJsonFile}
        \cup {ValidFile(GeneratedCorpus(n, 0)) : n \in CorpusSizes}
        \cup {ValidFile(GeneratedCorpus(MaxCorpus, bad)) : bad \in BadPositions}

\* main.py lines 26-36: the fields of Job that have no default
RequiredFields == {"job_title", "company", "location", "apply_link"}

\* the fields of a stored job that the model carries
JobFieldNames == RequiredFields \cup {"source"}

ValidJob_Any(job) == TRUE

\* Job(**job) validates: every required field is present and holds a string
ValidJob(job) ==
    /\ RequiredFields \subseteq DOMAIN job
    /\ job.apply_link # NoneLink

\* Job(**job): the validated record, the optional fields the dict lacks set
\* to their default None
JobModel(job) ==
    [f \in JobFieldNames \cup {"experience"} |->
        IF f \in DOMAIN job THEN job[f] ELSE "None"]

\* the record's own fields, as the corpus holds them
JobFields(j) == [f \in JobFieldNames |-> j[f]]

\* the elements a well-shaped reply may list under "relevant_jobs": the first
\* or the last job it was given, a job it was not given, the first job with
\* a null apply_link, and the first job without one of the required fields
ReplyRecords ==
    {[tag |-> t, field |-> "none"] : t \in {"first", "last", "invented", "nulllink"}}
        \cup {[tag |-> "missing", field |-> f] : f \in RequiredFields}

\* what the model answers (llm_processor.py lines 100-113).  kind is what
\* the answer holds: the call (or response.text) raises; text that is not
\* JSON; JSON that is not an object; an object without "relevant_jobs"; an
\* object whose "relevant_jobs" is not a list; an object with a list of
\* picks.  fence says that this content stands inside a ```json block
\* instead of being the whole text.
LlmReplies ==
    {[kind |-> "exception", fence |-> FALSE, picks |-> <<>>]}
        \cup {[kind |-> k, fence |-> fc, picks |-> <<>>] :
                 k \in {"notjson", "notobject", "nokey", "notlist"}, fc \in BOOLEAN}
        \cup {[kind |-> "jobs", fence |-> fc, picks |-> p] :
                 fc \in BOOLEAN, p \in SeqsUpTo(ReplyRecords, MaxReply)}

\* a job that is in no generated corpus
InventedJob ==
    [job_title |-> "T2", company |-> "C1", location |-> "L1",
     apply_link |-> MaxCorpus + 1, source |-> "indeed"]

\* a dict without the key f
Without(job, f) == [g \in (DOMAIN job) \ {f} |-> job[g]]

ReplyRecord(r, jobs_data) ==
    CASE r.tag = "first" -> jobs_data[1]
      [] r.tag = "last" -> jobs_data[Len(jobs_data)]
      [] r.tag = "invented" -> InventedJob
      [] r.tag = "nulllink" -> [jobs_data[1] EXCEPT !.apply_link = NoneLink]
      [] r.tag = "missing" -> Without(jobs_data[1], r.field)

\* the list under "relevant_jobs" of a well-shaped reply
PickedJobs(picks, jobs_data) ==
    [i \in DOMAIN picks |-> ReplyRecord(picks[i], jobs_data)]

FilterNoModel_Empty(jobs_data) == <<>>

\* llm_processor.py lines 29-33: model is None
FilterNoModel(jobs_data) == jobs_data

\* llm_processor.py lines 120-122: the content of a ```json block, when the
\* text has one, replaces the text
StripFence(reply) == [reply EXCEPT !.fence = FALSE]

\* llm_processor.py line 124: json.loads rejects the text
JsonLoadsRaises(text) == text.fence \/ text.kind = "notjson"

\* llm_processor.py line 125
ShapeOk(text) == text.kind = "jobs"

\* llm_processor.py line 131: except json.JSONDecodeError
CaughtInner(exc) == exc = "JSONDecodeError"

CaughtOuter_Never(exc) == FALSE

\* llm_processor.py line 138: except Exception
CaughtOuter(exc) == TRUE

JobsDataAfter_Consumed(jobs_data) == <<>>

\* llm_processor.py lines 48-52: the prompt is built by reading jobs_data;
\* the list is what it was
JobsDataAfter(jobs_data) == jobs_data

\* llm_processor.py lines 27-141: [jobs: the list returned, llm:
\* generate_content was called, raised: an exception left the function,
\* jobs_data: the caller's list when the function ends]
FilterJobsWithLlm(jobs_data, mdl, reply) ==
    IF ~mdl
    THEN [jobs |-> FilterNoModel(jobs_data), llm |-> FALSE, raised |-> FALSE,
          jobs_data |-> jobs_data]
    ELSE IF jobs_data = <<>>
    THEN [jobs |-> <<>>, llm |-> FALSE, raised |-> FALSE, jobs_data |-> jobs_data]
    ELSE LET text == StripFence(reply)
             exc == IF reply.kind = "exception" THEN "Exception"
                    ELSE IF JsonLoadsRaises(text) THEN "JSONDecodeError"
                    ELSE "none"
             escapes == exc # "none" /\ ~CaughtInner(exc) /\ ~CaughtOuter(exc)
         IN  [jobs |-> IF exc = "none" /\ ShapeOk(text)
                       THEN PickedJobs(text.picks, jobs_data)
                       ELSE <<>>,
              llm |-> TRUE,
              raised |-> escapes,
              jobs_data |-> JobsDataAfter(jobs_data)]

\* main.py lines 125-134: the records that validate, as Job models, in order
RECURSIVE Validated(_)
Validated(jobs) ==
    IF jobs = <<>>
    THEN <<>>
    ELSE IF ValidJob(Head(jobs))
    THEN <<JobModel(Head(jobs))>> \o Validated(Tail(jobs))
    ELSE Validated(Tail(jobs))

Prefix(jobs) == SubSeq(jobs, 1, Min(Len(jobs), PrefixLimit))

NotCalled == [called |-> FALSE, jobs |-> <<>>, raised |-> FALSE]

RaisedResponse == [status |-> "raised", relevant_jobs |-> <<>>, total_found |-> 0]

\* main.py lines 93-136, one request
SearchJobs(crit, reply) ==
    LET jobs == LoadScrapedData(file)
        r == FilterJobsWithLlm(jobs, model, reply)
    IN  /\ op = "none"
        /\ op' = "search"
        /\ criteria' = crit
        /\ IF jobs = <<>>
           THEN /\ response' = [status |-> "ok", relevant_jobs |-> <<>>, total_found |-> 0]
                /\ filter_ret' = NotCalled
                /\ llm_called' = FALSE
                /\ llm_reply' = NoReply
                /\ search_all_jobs' = jobs
           ELSE IF ~crit
           THEN /\ response' =
                      IF \A i \in DOMAIN Prefix(jobs) : ValidJob(jobs[i])
                      THEN [status |-> "ok",
                            relevant_jobs |-> [i \in DOMAIN Prefix(jobs) |-> JobModel(jobs[i])],
                            total_found |-> Len(jobs)]
                      ELSE RaisedResponse
                /\ filter_ret' = NotCalled
                /\ llm_called' = FALSE
                /\ llm_reply' = NoReply
                /\ search_all_jobs' = jobs
           ELSE /\ response' =
                      IF r.raised
                      THEN RaisedResponse
                      ELSE [status |-> "ok",
                            relevant_jobs |-> Validated(r.jobs),
                            total_found |-> Len(Validated(r.jobs))]
                /\ filter_ret' = [called |-> TRUE, jobs |-> r.jobs, raised |-> r.raised]
                /\ llm_called' = r.llm
                /\ llm_reply' = IF r.llm THEN reply ELSE NoReply
                /\ search_all_jobs' = r.jobs_data
        /\ UNCHANGED <<file, model, input, repeated, outcome, wrote, concVars, runVars>>

\* filter_jobs_with_llm called on the loaded corpus with non-empty criteria,
\* as the test entry point of llm_processor.py does (lines 185-195)
FilterCall(reply) ==
    LET jobs_data == LoadScrapedData(file)
        r == FilterJobsWithLlm(jobs_data, model, reply)
    IN  /\ op = "none"
        /\ op' = "filter"
        /\ criteria' = TRUE
        /\ filter_ret' = [called |-> TRUE, jobs |-> r.jobs, raised |-> r.raised]
        /\ llm_called' = r.llm
        /\ llm_reply' = IF r.llm THEN reply ELSE NoReply
        /\ search_all_jobs' = r.jobs_data
        /\ response' = [status |-> "none", relevant_jobs |-> <<>>, total_found |-> 0]
        /\ UNCHANGED <<file, model, input, repeated, outcome, wrote, concVars, runVars>>

InitSearch ==
    /\ file \in SearchFiles
    /\ model \in BOOLEAN
    /\ StoreIdle
    /\ ConcIdle
    /\ SearchIdle
    /\ RunIdle

DoSearchJobs == \E crit \in BOOLEAN : \E reply \in LlmReplies : SearchJobs(crit, reply)

DoFilterCall == \E reply \in LlmReplies : FilterCall(reply)

NextSearch ==
    \/ DoSearchJobs
    \/ DoFilterCall

SpecSearch == InitSearch /\ [][NextSearch]_vars

(***************************************************************************)
(* Claims about the search path, checked under SpecSearch.                 *)
(***************************************************************************)

\* C9: a search without criteria returns exactly the first min(n, 50) jobs
\* of the corpus in corpus order, does not raise, and does not call the
\* scoring model.
EmptyCriteriaContract ==
    (op = "search" /\ ~criteria)
        => /\ response.status = "ok"
           /\ ~llm_called
           /\ ~filter_ret.called
           /\ Len(response.relevant_jobs) = Min(Len(Corpus(file)), PrefixLimit)
           /\ \A i \in DOMAIN response.relevant_jobs :
                  JobFields(response.relevant_jobs[i]) = Corpus(file)[i]

\* C10 as stated: with the model not configured, filter_jobs_with_llm
\* returns an empty list for every corpus.
MissingModelReturnsEmpty ==
    (filter_ret.called /\ ~model) => filter_ret.jobs = <<>>

\* C10 as amended: with the model not configured, filter_jobs_with_llm
\* returns the whole list it was given, unfiltered, without calling the
\* model; the result is empty only when the corpus is.
MissingModelReturnsAllJobs ==
    (filter_ret.called /\ ~model)
        => (filter_ret.jobs = Corpus(file) /\ ~llm_called)

\* the reply text itself is a JSON object whose "relevant_jobs" is a list
WellFormedReply(reply) == reply.kind = "jobs" /\ ~reply.fence

\* C11 as stated: whenever the call raised or the reply text is anything
\* but a JSON object with a list under "relevant_jobs", filter_jobs_with_llm
\* returns an empty list and raises nothing.
MalformedReplyReturnsEmpty ==
    (filter_ret.called /\ llm_called /\ ~WellFormedReply(llm_reply))
        => (filter_ret.jobs = <<>> /\ ~filter_ret.raised)

\* C11 as amended: whenever the call raised, or the reply (the content of
\* its ```json block when it has one, the whole text otherwise) is not JSON
\* or is JSON of any other shape than an object with a list under
\* "relevant_jobs", filter_jobs_with_llm returns an empty list and raises
\* nothing.
MalformedContentReturnsEmpty ==
    (filter_ret.called /\ llm_called /\ llm_reply.kind # "jobs")
        => (filter_ret.jobs = <<>> /\ ~filter_ret.raised)

\* the call of the model raised during a search, which answered normally
\* with no jobs
MalformedContentWitness ==
    /\ op = "search"
    /\ llm_called
    /\ llm_reply.kind = "exception"
    /\ response.status = "ok"
    /\ response.relevant_jobs = <<>>

\* a returned record has the four required fields, each holding a string
CompleteRecord(rec) ==
    /\ \A f \in {"job_title", "company", "location", "apply_link"} : f \in DOMAIN rec
    /\ rec.apply_link # NoneLink

\* the indices of the complete records among the first n returned
CompleteUpTo(recs, n) == {i \in 1..n : CompleteRecord(recs[i])}

\* C12: a search with criteria never fails because of a returned record; its
\* result holds one Job per complete returned record, in the returned order,
\* and nothing for a record that lacks a required field.
PerRecordRevalidation ==
    (op = "search" /\ criteria /\ filter_ret.called)
        => /\ response.status = "ok"
           /\ Len(response.relevant_jobs) =
                  Cardinality(CompleteUpTo(filter_ret.jobs, Len(filter_ret.jobs)))
           /\ \A i \in DOMAIN filter_ret.jobs :
                  CompleteRecord(filter_ret.jobs[i])
                      => JobFields(response.relevant_jobs[
                             Cardinality(CompleteUpTo(filter_ret.jobs, i))])
                            = JobFields(filter_ret.jobs[i])

\* the model returned a record without a required field before a complete
\* one, and the search answered with the complete one alone
PerRecordRevalidationWitness ==
    /\ op = "search"
    /\ criteria
    /\ Len(filter_ret.jobs) = 2
    /\ ~(RequiredFields \subseteq DOMAIN filter_ret.jobs[1])
    /\ CompleteRecord(filter_ret.jobs[2])
    /\ Len(response.relevant_jobs) = 1

\* C13: every Job of a search result is one of the jobs of the corpus that
\* the search loaded.
ResultWithinCorpus ==
    op = "search"
        => \A i \in DOMAIN response.relevant_jobs :
               JobFields(response.relevant_jobs[i]) \in Range(Corpus(file))

\* C14: a search, and a call of the filter, leaves the corpus file as it was
\* and leaves the list it loaded equal to what the file holds, whatever the
\* criteria and whatever the model answered.
FilteringIsReadOnly ==
    [][op' \in {"search", "filter"}
          => /\ file' = file
             /\ search_all_jobs' = LoadScrapedData(file)]_vars

\* a search with criteria over the largest corpus, answered by the model
\* with jobs that were returned
FilteringIsReadOnlyWitness ==
    /\ op = "search"
    /\ criteria
    /\ llm_called
    /\ Len(search_all_jobs) = MaxCorpus
    /\ response.relevant_jobs # <<>>

\* C26: in every response of a search, with an empty corpus, without
\* criteria or filtered by the model, total_found is the number of jobs in
\* relevant_jobs of that response.
TotalFoundIsLength ==
    (op = "search" /\ response.status = "ok")
        => response.total_found = Len(response.relevant_jobs)

\* a search with criteria went through the filter without a model, on a
\* corpus of more than PrefixLimit jobs
MissingModelWitness ==
    /\ op = "search"
    /\ criteria
    /\ ~model
    /\ filter_ret.called
    /\ Len(filter_ret.jobs) > PrefixLimit
    /\ response.total_found = Len(filter_ret.jobs)

(***************************************************************************)
(* Claims about the store, checked under Spec.                             *)
(***************************************************************************)

\* C1: no two Job records of the persisted corpus have the same
\* (apply_link, source) pair, after any sequence of run_scrapers runs and
\* save_job_details appends.
IdentityInvariant ==
    \A i, j \in DOMAIN Corpus(file) :
        i # j => Key(Corpus(file)[i]) # Key(Corpus(file)[j])

\* C2: every operation keeps every job that was in the persisted corpus
\* before it, so the corpus only ever grows.
NeverLosesJobs ==
    [][/\ \A i \in DOMAIN Corpus(file) : Corpus(file)[i] \in Range(Corpus(file'))
       /\ Len(Corpus(file')) >= Len(Corpus(file))]_vars

\* C3: a pipeline run that directly follows a run of the same pipeline with
\* the same candidates leaves the corpus size as the first run left it.
DedupIdempotence ==
    [][(repeated' /\ op' \in {"api_run", "run_scrapers"})
          => Len(Corpus(file')) = Len(Corpus(file))]_vars

\* a listing-API run has just been repeated with candidates that carry jobs
DedupIdempotenceWitness ==
    /\ repeated
    /\ op = "api_run"
    /\ \E i \in DOMAIN input : HasJobData(input[i])
    /\ Len(Corpus(file)) >= 2

\* C4: save_job_details of a job whose key is already in the corpus ends as
\* Duplicate, raises nothing and does not open the file for writing: the
\* file is what it was.
DuplicateIsNoOp ==
    [][(/\ op' = "save_job_details"
        /\ HasJobData(input')
        /\ Key(MapJob(input')) \in Keys(Corpus(file)))
          => (outcome' = "Duplicate" /\ ~wrote' /\ file' = file)]_vars

\* a save whose key was present, under a record that differs from the stored one
DuplicateIsNoOpWitness ==
    /\ op = "save_job_details"
    /\ outcome = "Duplicate"
    /\ Len(Corpus(file)) = 2
    /\ \E i \in DOMAIN Corpus(file) :
          /\ Key(Corpus(file)[i]) = Key(MapJob(input))
          /\ Corpus(file)[i] # MapJob(input)

\* C8: an operation keeps the relative order of the jobs already persisted
\* and puts the jobs it adds after all of them.
InsertionOrderKept ==
    [][LET old == Corpus(file)
           new == Corpus(file')
       IN  /\ \A i, j \in DOMAIN old : \A k, l \in DOMAIN new :
                  (i < j /\ old[i] # old[j] /\ new[k] = old[i] /\ new[l] = old[j])
                      => k < l
           /\ \A k, l \in DOMAIN new :
                  (new[k] \notin Range(old) /\ new[l] \in Range(old)) => l < k]_vars

(***************************************************************************)
(* SpecRun: one run of a pipeline, a network operation per step.           *)
(*                                                                         *)
(* The browser run: run_scrapers (scraper.py) called by the /scrape        *)
(* request (main.py trigger_scraper_run) or by the script of scraper.py.   *)
(* scrape_indeed loads its pages, then scrape_linkedin loads its pages,    *)
(* then the jobs of both are saved and the list is returned.               *)
(***************************************************************************)
\* what one Indeed job card gives: the href of its title link (None when the
\* anchor has none), or an exception during extraction (lines 109-137)
IndeedCards ==
    {[link |-> 1, fails |-> FALSE],
     [link |-> NoneLink, fails |-> FALSE],
     [link |-> 1, fails |-> TRUE]}

\* what one LinkedIn list item gives: the posting it shows (ref), whether the
\* card has its link element (lines 208-211), and whether clicking it or
\* reading its details pane raises (lines 223-309)
LinkedinItems ==
    {[ref |-> 1, link_found |-> TRUE, click_fails |-> FALSE],
     [ref |-> 2, link_found |-> TRUE, click_fails |-> FALSE],
     [ref |-> 1, link_found |-> FALSE, click_fails |-> FALSE],
     [ref |-> 1, link_found |-> TRUE, click_fails |-> TRUE]}

\* how a page load ends: the listing page, a login/authorization-wall URL
\* (no job elements), or driver.get raising
PageKinds == {"ok", "wall", "error"}

CardJobs_UntilFailure(cards) ==
    LET failing == {i \in DOMAIN cards : cards[i].fails}
        stop == IF failing = {} THEN Len(cards)
                ELSE (CHOOSE i \in failing : \A j \in failing : i <= j) - 1
    IN  [i \in 1..stop |-> ScrapedJob(cards[i].link, "indeed")]

\* scraper.py lines 108-137: a job per card whose extraction does not raise
RECURSIVE CardJobs(_)
CardJobs(cards) ==
    IF cards = <<>>
    THEN <<>>
    ELSE IF Head(cards).fails
    THEN CardJobs(Tail(cards))
    ELSE <<ScrapedJob(Head(cards).link, "indeed")>> \o CardJobs(Tail(cards))

\* scraper.py lines 191-321: a job per list item, with the card's link or
\* the default "Check link"
ItemJobs(items) ==
    [i \in DOMAIN items |->
        ScrapedJob(IF items[i].link_found THEN items[i].ref ELSE CheckLink, "linkedin")]

\* scraper.py line 232: the cards clicked to load their details, in order
Clicks(items) == [i \in DOMAIN items |-> items[i].ref]

LinkedinBreaks_AnyPage(page_num, items, kind) ==
    items = <<>> /\ kind = "wall"

\* scraper.py lines 185-188: the only check for an access wall
LinkedinBreaks(page_num, items, kind) ==
    items = <<>> /\ page_num = 0 /\ kind = "wall"

\* scraper.py lines 85-86: what a page of scrape_indeed does on the network,
\* in order: driver.get, then time.sleep(3) unless driver.get raised
IndeedPageEvents(kind) ==
    IF kind = "error" THEN <<"listing">> ELSE <<"listing", "sleep">>

\* scraper.py lines 230-234 and 324: what one list item does: the pause
\* before the click, the click that loads the details, the wait for the
\* details pane unless the click raised, and the pause after the item
RECURSIVE ItemEvents(_)
ItemEvents(items) ==
    IF items = <<>>
    THEN <<>>
    ELSE <<"sleep", "detail">>
             \o (IF Head(items).click_fails THEN <<>> ELSE <<"sleep">>)
             \o <<"sleep">>
             \o ItemEvents(Tail(items))

\* scraper.py lines 164-165, 191-324 and 326-328: what a page of
\* scrape_linkedin does on the network, in order
LinkedinPageEvents(kind, items, break, page_num, max_pages) ==
    IF kind = "error"
    THEN <<"listing">>
    ELSE <<"listing", "sleep">>
             \o ItemEvents(items)
             \o (IF ~break /\ page_num < max_pages - 1 THEN <<"sleep">> ELSE <<>>)

\* scraper.py lines 338 and 368: run_scrapers is a plain function (its call
\* gives no awaitable) and returns the list all_jobs, which has no status
RunScrapersReturns ==
    [awaitable |-> FALSE, type |-> "list", status |-> "none", new_jobs_found |-> 0]

\* main.py line 70: await accepts an awaitable only (TypeError otherwise)
Awaitable(result) == result.awaitable

\* main.py line 72: result.get exists on a dict (AttributeError on a list)
HasGet(result) == result.type = "dict"

\* main.py lines 70-90: the response of the request once the call of
\* run_scrapers has returned
TriggerResponse(result) ==
    IF ~Awaitable(result) \/ ~HasGet(result)
    THEN [status |-> "raised", new_jobs_found |-> 0]
    ELSE IF result.status = "success"
    THEN [status |-> "success", new_jobs_found |-> result.new_jobs_found]
    ELSE IF result.status = "no_new_jobs"
    THEN [status |-> "no_new_jobs", new_jobs_found |-> 0]
    ELSE [status |-> "skipped_or_error", new_jobs_found |-> 0]

\* main.py lines 61-67 and 70: POST /scrape
StartTrigger(position, location) ==
    /\ scrape_run.phase = "idle"
    /\ api_main.phase = "idle"
    /\ scrape_run' =
          IF position = "" \/ location = ""
          THEN [scrape_run EXCEPT !.phase = "done", !.endpoint = TRUE,
                                  !.response = [status |-> "400", new_jobs_found |-> 0]]
          ELSE [scrape_run EXCEPT !.phase = "indeed", !.endpoint = TRUE,
                                  !.max_pages = [indeed |-> 1, linkedin |-> 1],
                                  !.before = Corpus(file)]
    /\ UNCHANGED <<file, api_main, storeVars, concVars, searchVars>>

\* scraper.py lines 370-391: the script, with its configured page counts
StartMain(indeed_pages, linkedin_pages) ==
    /\ scrape_run.phase = "idle"
    /\ api_main.phase = "idle"
    /\ scrape_run' = [scrape_run EXCEPT
                         !.phase = "indeed",
                         !.max_pages = [indeed |-> indeed_pages, linkedin |-> linkedin_pages],
                         !.before = Corpus(file)]
    /\ UNCHANGED <<file, api_main, storeVars, concVars, searchVars>>

\* scraper.py lines 81-139: one iteration of scrape_indeed's page loop; the
\* loop ends with its last page or with an exception of driver.get
IndeedPage(kind, cards) ==
    LET ends == kind = "error" \/ scrape_run.page + 1 = scrape_run.max_pages.indeed
    IN  /\ scrape_run.phase = "indeed"
        /\ kind # "ok" => cards = <<>>
        /\ scrape_run' = [scrape_run EXCEPT
                             !.loads.indeed = Append(@, kind),
                             !.events.indeed = @ \o IndeedPageEvents(kind),
                             !.cards = @ \o cards,
                             !.jobs.indeed = @ \o CardJobs(cards),
                             !.page = IF ends THEN 0 ELSE @ + 1,
                             !.phase = IF ends THEN "linkedin" ELSE @]
        /\ UNCHANGED <<file, api_main, storeVars, concVars, searchVars>>

\* scraper.py lines 161-331 and 342-368: one iteration of scrape_linkedin's
\* page loop; when the loop ends (last page, the break of line 188, or an
\* exception of driver.get) run_scrapers saves and returns, and the request
\* that called it goes on with the returned value
LinkedinPage(kind, items) ==
    LET break == LinkedinBreaks(scrape_run.page, items, kind)
        ends == kind = "error" \/ break
                   \/ scrape_run.page + 1 = scrape_run.max_pages.linkedin
        linkedin_jobs == scrape_run.jobs.linkedin \o ItemJobs(items)
    IN  /\ scrape_run.phase = "linkedin"
        /\ kind # "ok" => items = <<>>
        /\ scrape_run' = [scrape_run EXCEPT
                             !.loads.linkedin = Append(@, kind),
                             !.events.linkedin =
                                 @ \o LinkedinPageEvents(kind, items, break, scrape_run.page,
                                                         scrape_run.max_pages.linkedin),
                             !.items = @ \o items,
                             !.clicked = @ \o Clicks(items),
                             !.jobs.linkedin = linkedin_jobs,
                             !.blocked = break,
                             !.page = IF ends THEN 0 ELSE @ + 1,
                             !.phase = IF ends THEN "done" ELSE @,
                             !.returned = IF ends THEN RunScrapersReturns.type ELSE @,
                             !.response = IF ends /\ scrape_run.endpoint
                                          THEN TriggerResponse(RunScrapersReturns)
                                          ELSE @]
        /\ file' = IF ends
                   THEN RunScrapersResult(file, scrape_run.jobs.indeed, linkedin_jobs)
                   ELSE file
        /\ UNCHANGED <<api_main, storeVars, concVars, searchVars>>

(***************************************************************************)
(* The listing-API script (indeed_api_scraper.py, __main__): phase 1       *)
(* requests listing pages and collects job identifiers, phase 2 requests   *)
(* the details of each identifier and hands them to save_job_details.      *)
(***************************************************************************)
\* indeed_api_scraper.py line 181
JOBS_PER_PAGE == 15

\* indeed_api_scraper.py line 190
max_pages_to_try == (MAX_JOBS_TO_SCRAPE \div JOBS_PER_PAGE) + 5

\* the job URLs the listing API can name: one more than the target
ListingUrls == 1..(MAX_JOBS_TO_SCRAPE + 1)

\* the entries of a listing page: with a 'url', or without one
ListingEntries ==
    {[has_url |-> TRUE, url |-> u] : u \in ListingUrls} \cup {[has_url |-> FALSE, url |-> 1]}

\* what get_job_listings_from_hasdata returns (lines 139-169): None after an
\* HTTP or request error or a non-JSON answer, else the parsed answer with
\* its 'jobs' and its pagination.nextPage
NoListing == [ok |-> FALSE, jobs |-> <<>>, next_page |-> FALSE]

ListingResponses ==
    {NoListing}
        \cup {[ok |-> TRUE, jobs |-> jobs, next_page |-> np] :
                 jobs \in SeqsUpTo(ListingEntries, MaxPerPage), np \in BOOLEAN}

RECURSIVE Collect_NoLimit(_, _)
Collect_NoLimit(collected, jobs_on_page) ==
    IF jobs_on_page = <<>>
    THEN collected
    ELSE LET job_listing == Head(jobs_on_page)
         IN  Collect_NoLimit(IF job_listing.has_url /\ job_listing.url \notin Range(collected)
                             THEN Append(collected, job_listing.url)
                             ELSE collected,
                             Tail(jobs_on_page))

\* lines 210-220: the identifiers after a page's entries were looked at
RECURSIVE Collect(_, _)
Collect(collected, jobs_on_page) ==
    IF jobs_on_page = <<>>
    THEN collected
    ELSE LET job_listing == Head(jobs_on_page)
             added == IF job_listing.has_url /\ job_listing.url \notin Range(collected)
                      THEN Append(collected, job_listing.url)
                      ELSE collected
         IN  IF job_listing.has_url /\ Len(added) >= MAX_JOBS_TO_SCRAPE
             THEN added
             ELSE Collect(added, Tail(jobs_on_page))

\* lines 172-174 and 188-190: the script starts; without an API key it exits
StartApi(has_key) ==
    /\ api_main.phase = "idle"
    /\ scrape_run.phase = "idle"
    /\ api_main' = [api_main EXCEPT !.phase = IF has_key THEN "listing" ELSE "exit",
                                    !.before = Corpus(file)]
    /\ UNCHANGED <<file, scrape_run, storeVars, concVars, searchVars>>

\* lines 193-236: one iteration of the phase-1 loop, up to the test that
\* decides whether another one follows; the sleep of line 230 is reached
\* unless the iteration ends in one of the two breaks of lines 224 and 228
ListingPage(listings_response) ==
    LET usable == listings_response.ok /\ listings_response.jobs # <<>>
        collected == IF usable
                     THEN Collect(api_main.collected_job_identifiers, listings_response.jobs)
                     ELSE api_main.collected_job_identifiers
        break == \/ ~usable
                 \/ Len(collected) < MAX_JOBS_TO_SCRAPE /\ ~listings_response.next_page
        last == \/ break
                \/ api_main.page_num + 1 >= max_pages_to_try
                \/ Len(collected) >= MAX_JOBS_TO_SCRAPE
    IN  /\ api_main.phase = "listing"
        /\ api_main' = [api_main EXCEPT
                           !.requests = Append(@, [page |-> api_main.page_num,
                                                   offset |-> api_main.current_offset,
                                                   ok |-> listings_response.ok,
                                                   next_page |-> listings_response.next_page,
                                                   reached |-> Len(collected) >= MAX_JOBS_TO_SCRAPE]),
                           !.events = @ \o (IF break THEN <<"listing">>
                                            ELSE <<"listing", "sleep">>),
                           !.collected_job_identifiers = collected,
                           !.current_offset = IF usable THEN @ + JOBS_PER_PAGE ELSE @,
                           !.page_num = IF last THEN @ ELSE @ + 1,
                           !.phase = IF ~last THEN "listing"
                                     ELSE IF collected = <<>> THEN "exit"
                                     ELSE "details",
                           !.i = 1]
        /\ UNCHANGED <<file, scrape_run, storeVars, concVars, searchVars>>

\* lines 240-253: one iteration of the phase-2 loop, with the sleep of
\* line 253 after every identifier but the last
DetailFetch(details) ==
    LET r == SaveResult(file, details)
        saved == details.shape # "none"
        raised == saved /\ r.outcome = "Raised"
        is_last == api_main.i = Len(api_main.collected_job_identifiers)
    IN  /\ api_main.phase = "details"
        /\ api_main' = [api_main EXCEPT
                           !.fetched = Append(@, api_main.collected_job_identifiers[api_main.i]),
                           !.details = Append(@, details),
                           !.events = @ \o (IF raised \/ is_last THEN <<"detail">>
                                            ELSE <<"detail", "sleep">>),
                           !.appended = IF saved /\ r.outcome = "Added"
                                        THEN Append(@, MapJob(details))
                                        ELSE @,
                           !.total_jobs_processed = IF saved /\ ~raised THEN @ + 1 ELSE @,
                           !.i = @ + 1,
                           !.phase = IF raised THEN "raised"
                                     ELSE IF is_last
                                     THEN "done"
                                     ELSE @]
        /\ file' = IF saved THEN r.file ELSE file
        /\ UNCHANGED <<scrape_run, storeVars, concVars, searchVars>>

\* A run is interrupted between two of its steps (KeyboardInterrupt, or the
\* process is ended).  scraper.py lines 138, 330, 350 and 359 catch
\* Exception only, so the interrupt leaves scrape_indeed or scrape_linkedin
\* and run_scrapers without reaching save_jobs (lines 362-364);
\* indeed_api_scraper.py lines 193-253 have no handler at all.
Interrupt ==
    /\ \/ /\ scrape_run.phase \in {"indeed", "linkedin"}
          /\ scrape_run' = [scrape_run EXCEPT !.phase = "interrupted"]
          /\ UNCHANGED api_main
       \/ /\ api_main.phase \in {"listing", "details"}
          /\ api_main' = [api_main EXCEPT !.phase = "interrupted"]
          /\ UNCHANGED scrape_run
    /\ UNCHANGED <<file, storeVars, concVars, searchVars>>

\* the corpus a run may find: none yet, or one job of either pipeline
RunFiles ==
    {AbsentFile,
     ValidFile(<<MapJob(Detail("job", "T1", TRUE, 1))>>),
     ValidFile(<<ScrapedJob(1, "indeed")>>)}

InitRun ==
    /\ file \in RunFiles
    /\ StoreIdle
    /\ ConcIdle
    /\ SearchIdle
    /\ RunIdle
    /\ model = TRUE

DoStartTrigger ==
    \E position \in {"", "python developer"} : \E location \in {"", "remote"} :
        StartTrigger(position, location)

DoStartMain ==
    \E indeed_pages \in 1..MaxPages : \E linkedin_pages \in 1..MaxPages :
        StartMain(indeed_pages, linkedin_pages)

DoIndeedPage ==
    \E kind \in PageKinds :
        \E cards \in SeqsUpTo(IndeedCards, MaxCards - Len(scrape_run.cards)) :
            IndeedPage(kind, cards)

DoLinkedinPage ==
    \E kind \in PageKinds :
        \E items \in SeqsUpTo(LinkedinItems,
                              MaxCards - Len(scrape_run.cards) - Len(scrape_run.items)) :
            LinkedinPage(kind, items)

DoStartApi == \E has_key \in BOOLEAN : StartApi(has_key)

DoListingPage == \E listings_response \in ListingResponses : ListingPage(listings_response)

DoDetailFetch == \E details \in ConcDetails : DetailFetch(details)

NextRun ==
    \/ DoStartTrigger
    \/ DoStartMain
    \/ DoIndeedPage
    \/ DoLinkedinPage
    \/ DoStartApi
    \/ DoListingPage
    \/ DoDetailFetch
    \/ Interrupt

SpecRun == InitRun /\ [][NextRun]_vars

\* A run that has started goes on: the loops of scrape_indeed (line 81),
\* scrape_linkedin (line 161) and of the listing-API script (lines 193 and
\* 240) run in one thread, and every network call in them returns or raises
\* (requests.get has timeout=60, lines 44 and 155 of indeed_api_scraper.py).
SpecRunFair ==
    /\ SpecRun
    /\ WF_vars(DoIndeedPage)
    /\ WF_vars(DoLinkedinPage)
    /\ WF_vars(DoListingPage)
    /\ WF_vars(DoDetailFetch)

(***************************************************************************)
(* Claims about the mapping of an answer to a job, checked under SpecMap.  *)
(***************************************************************************)

\* the lines of the saved answer's description that start with the label
LabelledLines ==
    {n \in DOMAIN input.description.lines :
        StartsWith(input.description.lines[n], WorkLocationLabel)}

\* C22: the job appended for an answer whose description has a line
\* starting with "Work Location:" has as location the text that follows the
\* label on the first such line; without such a line it has the location
\* sentinel; its location is never the empty string.
LocationFallback ==
    (op = "save_job_details" /\ outcome = "Added")
        => LET job == Corpus(file)[Len(Corpus(file))]
               first == CHOOSE n \in LabelledLines : \A m \in LabelledLines : n <= m
           IN  /\ LabelledLines # {}
                     => job.location = Text(Strip(Tail(input.description.lines[first])))
               /\ LabelledLines = {} => job.location = "Location Not Provided by API"
               /\ job.location # ""

(***************************************************************************)
(* Claims about a run, checked under SpecRun.                              *)
(***************************************************************************)

\* the number of jobs of the corpus that were not in it before the run
NewlyAdded ==
    Cardinality({i \in DOMAIN Corpus(file) : Corpus(file)[i] \notin Range(scrape_run.before)})

\* C15: a /scrape request with non-empty position and location ends with a
\* status among success, no_new_jobs and error and with new_jobs_found equal
\* to the number of jobs the run added to the corpus: success exactly when
\* it added at least one, no_new_jobs when it completed adding none.
TriggerContract ==
    (/\ scrape_run.endpoint
     /\ scrape_run.phase = "done"
     /\ scrape_run.response.status # "400")
        => /\ scrape_run.response.status \in {"success", "no_new_jobs", "error"}
           /\ scrape_run.response.new_jobs_found = NewlyAdded
           /\ scrape_run.response.status = "success" <=> NewlyAdded > 0
           /\ (scrape_run.returned # "none" /\ NewlyAdded = 0)
                  => scrape_run.response.status = "no_new_jobs"

\* the Indeed cards seen in the run whose extraction did not raise
GoodCards == {i \in DOMAIN scrape_run.cards : ~scrape_run.cards[i].fails}

\* C16: when scrape_linkedin meets the access wall on its first page,
\* LinkedIn has contributed no job and no detail fetch, scrape_indeed has
\* gone through its pages and kept a job per good card, and run_scrapers
\* returns after saving Indeed's jobs.
WallIsolation ==
    (scrape_run.phase = "done" /\ scrape_run.blocked)
        => /\ scrape_run.jobs.linkedin = <<>>
           /\ scrape_run.clicked = <<>>
           /\ \/ Len(scrape_run.loads.indeed) = scrape_run.max_pages.indeed
              \/ scrape_run.loads.indeed[Len(scrape_run.loads.indeed)] = "error"
           /\ Len(scrape_run.jobs.indeed) = Cardinality(GoodCards)
           /\ scrape_run.returned = "list"
           /\ scrape_run.jobs.indeed # <<>> => file = ValidFile(scrape_run.jobs.indeed)

\* LinkedIn was blocked on its first page after Indeed had given jobs over
\* all its pages, and the file holds Indeed's jobs
WallIsolationWitness ==
    /\ scrape_run.phase = "done"
    /\ scrape_run.blocked
    /\ Len(scrape_run.loads.indeed) = MaxPages
    /\ scrape_run.jobs.indeed # <<>>
    /\ file = ValidFile(scrape_run.jobs.indeed)

\* C17: a page of a source that resolved to the access wall, whatever its
\* page number, is the last page requested of that source in the run.
WallStopsPaging ==
    \A src \in {"indeed", "linkedin"} :
        \A n \in DOMAIN scrape_run.loads[src] :
            scrape_run.loads[src][n] = "wall" => n = Len(scrape_run.loads[src])

Attempts(p) == {n \in DOMAIN api_main.requests : api_main.requests[n].page = p}

\* C19: once phase 1 is over, a listing page no request of which succeeded
\* was requested 3 times, and no page was requested more than 3 times.
PageLoadRetry ==
    api_main.phase \in {"details", "exit", "done"}
        => \A n \in DOMAIN api_main.requests :
               LET tries == Attempts(api_main.requests[n].page)
               IN  /\ Cardinality(tries) <= 3
                   /\ (\A m \in tries : ~api_main.requests[m].ok) => Cardinality(tries) = 3

\* C20: within a run no candidate's details are requested twice: the
\* identifiers of phase 2 are distinct, and so are the LinkedIn postings
\* whose card was clicked.
NoCandidateFetchedTwice ==
    /\ \A n, m \in DOMAIN api_main.fetched :
           n # m => api_main.fetched[n] # api_main.fetched[m]
    /\ \A n, m \in DOMAIN scrape_run.clicked :
           n # m => scrape_run.clicked[n] # scrape_run.clicked[m]

\* no two network operations of the trace follow each other without a
\* sleep between them
Spaced(events) ==
    \A n \in 1..(Len(events) - 1) :
        events[n] # "sleep" => events[n + 1] = "sleep"

\* C21: between every two consecutive network operations on the same
\* source within a run (listing then listing, listing then detail, detail
\* then detail) there is a sleep.
PolitenessDelay ==
    /\ Spaced(api_main.events)
    /\ Spaced(scrape_run.events.indeed)
    /\ Spaced(scrape_run.events.linkedin)

\* C23: in phase 1 the collected identifiers never number more than the
\* target, and a listing page after which the target was reached, or whose
\* answer named no next page, is the last one requested.
PagingStops ==
    /\ Len(api_main.collected_job_identifiers) <= MAX_JOBS_TO_SCRAPE
    /\ \A n \in DOMAIN api_main.requests :
           n < Len(api_main.requests)
               => /\ ~api_main.requests[n].reached
                  /\ api_main.requests[n].next_page

\* phase 1 ended after a second page because the target was reached, the
\* answer naming a next page, and phase 2 fetched the details of them all
PagingStopsWitness ==
    /\ api_main.phase = "done"
    /\ Len(api_main.requests) >= 2
    /\ api_main.requests[Len(api_main.requests)].next_page
    /\ Len(api_main.collected_job_identifiers) = MAX_JOBS_TO_SCRAPE
    /\ Len(api_main.fetched) = MAX_JOBS_TO_SCRAPE

\* C24: when a run was interrupted between two pages or two candidates,
\* the corpus holds every job that was in it before the run and every job
\* the run had got until then: the jobs scrape_indeed and scrape_linkedin
\* had appended to their lists, the jobs the listing-API script had
\* appended through save_job_details.
CancellationKeepsProgress ==
    /\ scrape_run.phase = "interrupted"
          => /\ Range(scrape_run.before) \subseteq Range(Corpus(file))
             /\ Range(scrape_run.jobs.indeed) \subseteq Range(Corpus(file))
             /\ Range(scrape_run.jobs.linkedin) \subseteq Range(Corpus(file))
    /\ api_main.phase = "interrupted"
          => /\ Range(api_main.before) \subseteq Range(Corpus(file))
             /\ Range(api_main.appended) \subseteq Range(Corpus(file))

\* no listing page is requested after the details of a candidate were
\* requested
ListingBeforeDetails(events) ==
    \A n, m \in DOMAIN events :
        (events[n] = "detail" /\ events[m] = "listing") => m < n

\* the run of a source is over: it went through its pages and candidates
\* (LinkedIn possibly stopped by the access wall), or it was interrupted
IndeedEnded == scrape_run.phase \in {"linkedin", "done", "interrupted"}

LinkedinEnded == scrape_run.phase \in {"done", "interrupted"}

ApiEnded == api_main.phase \in {"done", "exit", "interrupted"}

\* C25: the run of every source ends, whatever the pages and candidates
\* answer; the listing-API script requests at most
\* (MAX_JOBS_TO_SCRAPE // JOBS_PER_PAGE) + 5 listing pages; in every source
\* the details of a candidate are requested only after the last listing
\* page was; and a source whose run is over issues no network operation.
RunsEnd ==
    /\ [](Len(api_main.requests) <= (MAX_JOBS_TO_SCRAPE \div JOBS_PER_PAGE) + 5)
    /\ [](/\ ListingBeforeDetails(api_main.events)
          /\ ListingBeforeDetails(scrape_run.events.indeed)
          /\ ListingBeforeDetails(scrape_run.events.linkedin))
    /\ (api_main.phase = "listing") ~> ApiEnded
    /\ (scrape_run.phase = "indeed") ~> IndeedEnded
    /\ (scrape_run.phase = "linkedin") ~> LinkedinEnded
    /\ [][/\ ApiEnded => api_main.events' = api_main.events
          /\ IndeedEnded => scrape_run.events.indeed' = scrape_run.events.indeed
          /\ LinkedinEnded => scrape_run.events.linkedin' = scrape_run.events.linkedin]_vars

====
